---- MODULE Spec2Model ----
(***************************************************************************)
(* Model of app.py: the highlight-extraction and dual-format rendering     *)
(* pipeline behind POST /upload-pdf.                                       *)
(*                                                                         *)
(* A text is a sequence of Unicode code points.  A rectangle is the tuple  *)
(* <<x0, y0, x1, y1>> in PDF points.  An output PDF is a sequence of       *)
(* pages, each page a sequence of placed items; a DOCX body is a sequence  *)
(* of blocks.  External failures (a page that cannot be rasterized, an     *)
(* image that cannot be embedded, a write that fails) are inputs chosen by *)
(* the environment at the step where the code would observe them.          *)
(***************************************************************************)
EXTENDS Integers, Sequences, FiniteSets, TLC

(***************************************************************************)
(* Bounds of the model.                                                    *)
(***************************************************************************)
\* annotations of an uploaded document (all pages together)
MaxAnnots == 3
\* highlights handed to a renderer that is called on its own
MaxHighlights == 3

(***************************************************************************)
(* Program constants.                                                      *)
(***************************************************************************)
PageWidth == 595
PageHeight == 842
Margin == 50
FullTitleAdvance == 25
ContinuedAdvance == 20
CropTitleAdvance == 15
CropSpacing == 25
RasterScale == 2

(***************************************************************************)
(* Text helpers.                                                           *)
(***************************************************************************)
\* code points removed by the regex of sanitize_text
ControlChars == (0..8) \cup {11, 12} \cup (14..31) \cup {127}

\* code points Python's str.strip() treats as whitespace (those below 256)
StripChars == {9, 10, 11, 12, 13, 28, 29, 30, 31, 32, 133, 160}

\* the characters listed one by one in complex_pattern that lie outside its
\* two ranges: MICRO SIGN and GREEK LUNATE EPSILON SYMBOL
ListedComplexChars == {181, 1013}

IsComplexChar(c) ==
    \/ c \in ListedComplexChars
    \/ (c >= 8704 /\ c <= 8959)
    \/ (c >= 913 /\ c <= 969)

RECURSIVE Filter(_, _)
Filter(s, drop) ==
    IF s = <<>> THEN <<>>
    ELSE IF Head(s) \in drop THEN Filter(Tail(s), drop)
    ELSE <<Head(s)>> \o Filter(Tail(s), drop)

sanitize_text(text) == Filter(text, ControlChars)

is_complex_text(text) == \E n \in 1..Len(text) : IsComplexChar(text[n])

RECURSIVE LStrip(_)
LStrip(s) ==
    IF s # <<>> /\ Head(s) \in StripChars THEN LStrip(Tail(s)) ELSE s

RECURSIVE RStrip(_)
RStrip(s) ==
    IF s # <<>> /\ s[Len(s)] \in StripChars
    THEN RStrip(SubSeq(s, 1, Len(s) - 1))
    ELSE s

Strip(s) == RStrip(LStrip(s))

(***************************************************************************)
(* Rectangles.                                                             *)
(***************************************************************************)
RectWidth(r) == r[3] - r[1]
RectHeight(r) == r[4] - r[2]
\* fitz.Rect.__bool__: false only for the all-zero rectangle
RectTruthy(r) == ~(r[1] = 0 /\ r[2] = 0 /\ r[3] = 0 /\ r[4] = 0)
RectIsEmpty(r) == r[3] <= r[1] \/ r[4] <= r[2]

(***************************************************************************)
(* Sample inputs.                                                          *)
(***************************************************************************)
\* 200 x 50, 200 x 124, 495 x 372 and 495 x 743 points, and an empty rectangle
RectSmall == <<50, 100, 250, 150>>
RectMid == <<50, 100, 250, 224>>
RectWide == <<50, 100, 545, 472>>
RectTall == <<50, 50, 545, 793>>
RectNone == <<50, 100, 50, 100>>
\* 495 x 742 points: its crop, scaled, is exactly as high as the printable height
RectPage == <<50, 50, 545, 792>>

\* "ab", " ab\n", "a<BEL>b", alpha "+" beta, NUL followed by the
\* less-than-or-equal sign, a lone space, the empty text
TextPlain == <<97, 98>>
TextPadded == <<32, 97, 98, 10>>
TextControl == <<97, 7, 98>>
TextGreek == <<945, 43, 946>>
TextMathNul == <<0, 8804>>
TextBlank == <<32>>
TextEmpty == <<>>

\* page numbers of the highlights handed to a renderer called on its own, and
\* of the pages of an uploaded document
PageNums == {1, 2, 3}
DocPages == {1, 2}

\* one annotation of a source page: its kind, rectangle, the text layer under
\* the rectangle, and whether reading it raises
Annot(kind, rect, text, bad) ==
    [kind |-> kind, rect |-> rect, text |-> text, bad |-> bad]

AnnotSamples ==
    { Annot("highlight", RectMid, TextPadded, FALSE),
      Annot("highlight", RectWide, TextGreek, FALSE),
      Annot("highlight", RectSmall, TextBlank, FALSE),
      Annot("highlight", RectSmall, TextEmpty, FALSE),
      Annot("highlight", RectNone, TextPlain, FALSE),
      Annot("underline", RectMid, TextPlain, FALSE),
      Annot("underline", RectMid, TextPlain, TRUE) }

Modes == {"full_page", "cropped_highlight", "thumbnail"}

RequestKinds == {"no_file_part", "empty_name", "not_pdf", "pdf"}

RECURSIVE SeqsUpTo(_, _)
SeqsUpTo(S, n) ==
    IF n = 0 THEN {<<>>}
    ELSE LET shorter == SeqsUpTo(S, n - 1)
         IN  shorter \cup {Append(s, x) : s \in {t \in shorter : Len(t) = n - 1}, x \in S}

\* the annotations of a document in the order the two loops of
\* extract_highlights_from_pdf visit them: page ascending, then annotation order
Documents ==
    { d \in SeqsUpTo([page : DocPages, annot : AnnotSamples], MaxAnnots) :
        \A n \in 1..(Len(d) - 1) : d[n].page <= d[n + 1].page }

Highlight(text, page, rect) == [text |-> text, page |-> page, rect |-> rect]

(***************************************************************************)
(* State.                                                                  *)
(***************************************************************************)
VARIABLES
    pc,          \* position of the thread of control
    caller,      \* "upload_pdf", or "direct" when a function is called on its own
    req,         \* what the request carries in its pdfFile part
    mode,        \* the extractionMode form field, forwarded as it came
    srcOpens,    \* whether fitz.open can open and parse the uploaded file
    doc,         \* the annotations of the uploaded document
    inputFile,   \* whether the temporary copy of the upload exists
    idx,         \* extract_highlights_from_pdf: next annotation to visit
    found,       \* extract_highlights_from_pdf: its local list
    highlights,  \* the extracted highlights, as handed to both renderers
    extractErr,  \* extract_highlights_from_pdf returned from an except clause
    outDoc,      \* generate_pdf: output_doc, a sequence of pages
    yOffset,     \* generate_pdf: y_offset of cropped_highlight mode
    pdfK,        \* generate_pdf: position of the running loop
    uniq,        \* generate_pdf: unique_original_page_nums
    rasters,     \* generate_pdf: number of pixmaps produced
    pdfCaught,   \* generate_pdf: its except clause ran
    pdfRaised,   \* the exception generate_pdf raised to its caller, or "none"
    pdfSaved,    \* output_doc.save wrote the output PDF
    body,        \* generate_docx: the blocks of the document
    docxJ,       \* generate_docx: next highlight
    imagePath,   \* generate_docx: image_path of the highlight being written
    tmpFiles,    \* temporary image files that exist on disk
    tmpMade,     \* temporary image files created so far
    outcomes,    \* generate_docx: what happened to each highlight written
    docxRaised,  \* the exception generate_docx raised to its caller, or "none"
    docxSaved,   \* document.save wrote the output DOCX
    response     \* the response of upload_pdf

vars ==
    <<pc, caller, req, mode, srcOpens, doc, inputFile, idx, found, highlights,
      extractErr, outDoc, yOffset, pdfK, uniq, rasters, pdfCaught, pdfRaised,
      pdfSaved, body, docxJ, imagePath, tmpFiles, tmpMade, outcomes, docxRaised,
      docxSaved, response>>

extractVars == <<idx, found, highlights, extractErr>>
pdfVars == <<outDoc, yOffset, pdfK, uniq, rasters, pdfCaught, pdfRaised, pdfSaved>>
docxVars ==
    <<body, docxJ, imagePath, tmpFiles, tmpMade, outcomes, docxRaised, docxSaved>>
inputVars == <<caller, req, mode, srcOpens, doc>>

NoResponse == [status |-> 0, urls |-> FALSE]
Response(status, urls) == [status |-> status, urls |-> urls]

InitLocals ==
    /\ inputFile = FALSE
    /\ idx = 1
    /\ found = <<>>
    /\ extractErr = FALSE
    /\ outDoc = <<>>
    /\ yOffset = 0
    /\ pdfK = 1
    /\ uniq = <<>>
    /\ rasters = 0
    /\ pdfCaught = FALSE
    /\ pdfRaised = "none"
    /\ pdfSaved = FALSE
    /\ body = <<>>
    /\ docxJ = 1
    /\ imagePath = 0
    /\ tmpFiles = {}
    /\ tmpMade = 0
    /\ outcomes = <<>>
    /\ docxRaised = "none"
    /\ docxSaved = FALSE
    /\ response = NoResponse

\* a request arrives at /upload-pdf
Init ==
    /\ pc = "upload"
    /\ caller = "upload_pdf"
    /\ req \in RequestKinds
    /\ mode \in Modes
    /\ srcOpens \in BOOLEAN
    /\ doc \in Documents
    /\ req # "pdf" => (mode = "full_page" /\ srcOpens /\ doc = <<>>)
    /\ ~srcOpens => doc = <<>>
    /\ highlights = <<>>
    /\ InitLocals

(***************************************************************************)
(* upload_pdf: the checks before the try block.                            *)
(***************************************************************************)
UploadReject ==
    /\ pc = "upload"
    /\ req # "pdf"
    /\ response' = Response(400, FALSE)
    /\ pc' = "done"
    /\ UNCHANGED <<inputVars, inputFile, extractVars, pdfVars, docxVars>>

UploadAccept ==
    /\ pc = "upload"
    /\ req = "pdf"
    /\ inputFile' = TRUE
    /\ pc' = "ext_open"
    /\ UNCHANGED <<inputVars, extractVars, pdfVars, docxVars, response>>

\* where control goes when a function returns normally
AfterExtract == IF caller = "upload_pdf" THEN "pdf_start" ELSE "done"
AfterPdf == IF caller = "upload_pdf" THEN "docx_start" ELSE "done"
AfterDocx == IF caller = "upload_pdf" THEN "respond" ELSE "done"

(***************************************************************************)
(* extract_highlights_from_pdf.                                            *)
(***************************************************************************)
\* fitz.open: a file that is no PDF raises, and the except clause returns []
ExtractOpen ==
    /\ pc = "ext_open"
    /\ IF srcOpens
       THEN /\ pc' = "ext_loop"
            /\ UNCHANGED <<highlights, extractErr>>
       ELSE /\ highlights' = <<>>
            /\ extractErr' = TRUE
            /\ pc' = AfterExtract
    /\ idx' = 1
    /\ found' = <<>>
    /\ UNCHANGED <<inputVars, inputFile, pdfVars, docxVars, response>>

\* a plausible slip: the test of the annotation kind left out
KeptAnyKind(p, a) ==
    IF /\ RectTruthy(a.rect) /\ ~RectIsEmpty(a.rect)
       /\ a.text # <<>>
    THEN <<Highlight(Strip(a.text), p, a.rect)>>
    ELSE <<>>

\* what one pass of the inner loop appends for annotation a of page p
KeptHighlights(p, a) ==
    IF /\ a.kind = "highlight"
       /\ RectTruthy(a.rect) /\ ~RectIsEmpty(a.rect)
       /\ a.text # <<>>
    THEN <<Highlight(Strip(a.text), p, a.rect)>>
    ELSE <<>>

\* one pass of the inner loop; an annotation that cannot be read raises inside
\* the one try block of the function, whose except clause returns []
ExtractAnnot ==
    /\ pc = "ext_loop"
    /\ idx <= Len(doc)
    /\ IF doc[idx].annot.bad
       THEN /\ highlights' = <<>>
            /\ found' = <<>>
            /\ extractErr' = TRUE
            /\ idx' = idx
            /\ pc' = AfterExtract
       ELSE /\ found' = found \o KeptHighlights(doc[idx].page, doc[idx].annot)
            /\ idx' = idx + 1
            /\ pc' = pc
            /\ UNCHANGED <<highlights, extractErr>>
    /\ UNCHANGED <<inputVars, inputFile, pdfVars, docxVars, response>>

\* doc.close() and return highlights
ExtractReturn ==
    /\ pc = "ext_loop"
    /\ idx > Len(doc)
    /\ highlights' = found
    /\ pc' = AfterExtract
    /\ UNCHANGED <<inputVars, inputFile, idx, found, extractErr, pdfVars, docxVars,
                   response>>

NextExtract == ExtractOpen \/ ExtractAnnot \/ ExtractReturn

(***************************************************************************)
(* generate_pdf_from_highlight_screenshots.                                *)
(***************************************************************************)
TextItem(what, n, y) ==
    [kind |-> "text", what |-> what, n |-> n, y |-> y, h |-> 0, pw |-> 0, ph |-> 0]

\* an inserted pixmap of pw x ph pixels, drawn h points high with its top at y
ImageItem(n, y, h, pw, ph) ==
    [kind |-> "image", what |-> "pixmap", n |-> n, y |-> y, h |-> h, pw |-> pw,
     ph |-> ph]

NoHighlightsPage == <<TextItem("no_highlights", 0, Margin)>>
ErrorPage == <<TextItem("error", 0, Margin)>>

\* pixmaps of whole source pages at Matrix(2, 2): pages 495 points wide and
\* 700, 717, 900 and 1104 points high
PagePixmaps == {<<990, 1400>>, <<990, 1434>>, <<990, 1800>>, <<990, 2208>>}

RECURSIVE SortedSeq(_)
SortedSeq(S) ==
    IF S = {} THEN <<>>
    ELSE LET m == CHOOSE x \in S : \A y \in S : x <= y
         IN  <<m>> \o SortedSeq(S \ {m})

\* a plausible slip: the page of every highlight, not deduplicated and not sorted
HighlightPagesAsGiven(hl) == [n \in 1..Len(hl) |-> hl[n].page]

\* sorted(list(set(item['page'] for item in highlights)))
UniquePageNums(hl) == SortedSeq({hl[n].page : n \in 1..Len(hl)})

MaxImgWidth == PageWidth - 2 * Margin

\* img_height * (max_height / img_height) > max_height in IEEE-754 doubles: the
\* product lands one ulp above max_height for these sampled (img_height,
\* max_height) pairs and on or below it for the other samples
RoundsAbove(ph, maxh) == <<ph, maxh>> \in {<<2208, 717>>}

\* scale_x <= scale_y, i.e. min(scale_x, scale_y) is scale_x
WidthBound(pw, ph, maxh) == MaxImgWidth * ph <= maxh * pw

\* img_height * min(scale_x, scale_y), to the point; the quotient is exact for
\* the sampled pixmaps
ScaledHeight(pw, ph, maxh) ==
    IF WidthBound(pw, ph, maxh) THEN (ph * MaxImgWidth) \div pw ELSE maxh

\* scaled_img_height > max_img_height_on_current_page
Overflows(pw, ph, maxh) ==
    IF WidthBound(pw, ph, maxh)
    THEN ph * MaxImgWidth > maxh * pw
    ELSE RoundsAbove(ph, maxh)

\* the output pages one pass of the full_page loop adds for original page n
FullPagePages(n, pw, ph) ==
    LET title == TextItem("original", n, Margin)
        y1 == Margin + FullTitleAdvance
        max1 == PageHeight - y1 - Margin
        y2 == Margin + ContinuedAdvance
        max2 == PageHeight - y2 - Margin
    IN  IF Overflows(pw, ph, max1)
        THEN << <<title>>,
                <<TextItem("continued", n, Margin),
                  ImageItem(n, y2, ScaledHeight(pw, ph, max2), pw, ph)>> >>
        ELSE << <<title, ImageItem(n, y1, ScaledHeight(pw, ph, max1), pw, ph)>> >>

\* pixmap of a clipped rectangle at Matrix(2, 2)
ClipPixmap(rect) == <<RasterScale * RectWidth(rect), RasterScale * RectHeight(rect)>>

\* img_height * min(max_img_width / img_width, 1.0); exact for the samples
CropScaledHeight(pw, ph) ==
    IF MaxImgWidth < pw THEN (ph * MaxImgWidth) \div pw ELSE ph

\* a plausible slip: the bottom margin left out of the fit check
FitCheckNoMargin(y, sh) == y + sh > PageHeight

\* y_offset + scaled_img_height + margin > max_page_height
NeedsNewPage(y, sh) == y + sh + Margin > PageHeight

AppendToLastPage(pages, items) ==
    [pages EXCEPT ![Len(pages)] = pages[Len(pages)] \o items]

\* control leaves a function by an exception; upload_pdf's except clause answers
\* 500 and its finally clause removes the temporary input
RaiseToCaller ==
    /\ pc' = "done"
    /\ IF caller = "upload_pdf"
       THEN /\ response' = Response(500, FALSE)
            /\ inputFile' = FALSE
       ELSE UNCHANGED <<response, inputFile>>

\* output_doc = fitz.open() and the branch on `not highlights`
PdfStart ==
    /\ pc = "pdf_start"
    /\ IF highlights = <<>>
       THEN /\ outDoc' = <<NoHighlightsPage>>
            /\ pc' = "pdf_save"
       ELSE /\ outDoc' = <<>>
            /\ pc' = "pdf_try"
    /\ UNCHANGED <<inputVars, inputFile, extractVars, yOffset, pdfK, uniq, rasters,
                   pdfCaught, pdfRaised, pdfSaved, docxVars, response>>

\* original_doc = fitz.open(...) and the branch on mode; a mode that is neither
\* of the two runs no branch and leaves output_doc without pages
PdfBranch ==
    /\ pc = "pdf_try"
    /\ pdfK' = 1
    /\ IF mode = "full_page"
       THEN /\ uniq' = UniquePageNums(highlights)
            /\ pc' = "pdf_full"
            /\ UNCHANGED <<outDoc, yOffset>>
       ELSE IF mode = "cropped_highlight"
       THEN /\ outDoc' = Append(outDoc, <<>>)
            /\ yOffset' = Margin
            /\ pc' = "pdf_crop"
            /\ UNCHANGED uniq
       ELSE /\ pc' = "pdf_save"
            /\ UNCHANGED <<outDoc, yOffset, uniq>>
    /\ UNCHANGED <<inputVars, inputFile, extractVars, rasters, pdfCaught, pdfRaised,
                   pdfSaved, docxVars, response>>

\* one pass of the full_page loop
PdfFullPage ==
    /\ pc = "pdf_full"
    /\ pdfK <= Len(uniq)
    /\ \E pixmap \in PagePixmaps :
         outDoc' = outDoc \o FullPagePages(uniq[pdfK], pixmap[1], pixmap[2])
    /\ rasters' = rasters + 1
    /\ pdfK' = pdfK + 1
    /\ UNCHANGED <<pc, inputVars, inputFile, extractVars, yOffset, uniq, pdfCaught,
                   pdfRaised, pdfSaved, docxVars, response>>

\* one pass of the cropped_highlight loop
PdfCropItem ==
    /\ pc = "pdf_crop"
    /\ pdfK <= Len(highlights)
    /\ LET hl == highlights[pdfK]
           pixmap == ClipPixmap(hl.rect)
           sh == CropScaledHeight(pixmap[1], pixmap[2])
           fresh == NeedsNewPage(yOffset, sh)
           pages == IF fresh THEN Append(outDoc, <<>>) ELSE outDoc
           y0 == IF fresh THEN Margin ELSE yOffset
           y1 == y0 + CropTitleAdvance
       IN  /\ outDoc' = AppendToLastPage(pages,
                            <<TextItem("highlight", hl.page, y0),
                              ImageItem(hl.page, y1, sh, pixmap[1], pixmap[2])>>)
           /\ yOffset' = y1 + sh + CropSpacing
    /\ rasters' = rasters + 1
    /\ pdfK' = pdfK + 1
    /\ UNCHANGED <<pc, inputVars, inputFile, extractVars, uniq, pdfCaught, pdfRaised,
                   pdfSaved, docxVars, response>>

\* the loop is over: original_doc.close()
PdfLoopDone ==
    /\ \/ pc = "pdf_full" /\ pdfK > Len(uniq)
       \/ pc = "pdf_crop" /\ pdfK > Len(highlights)
    /\ pc' = "pdf_save"
    /\ UNCHANGED <<inputVars, inputFile, extractVars, pdfVars, docxVars, response>>

\* a call inside the try block raises (the source cannot be opened, a page
\* cannot be loaded or rasterized, an image cannot be inserted): the except
\* clause replaces output_doc by a one-page error document
PdfExcept ==
    /\ pc \in {"pdf_try", "pdf_full", "pdf_crop"}
    /\ outDoc' = <<ErrorPage>>
    /\ pdfCaught' = TRUE
    /\ pc' = "pdf_save"
    /\ UNCHANGED <<inputVars, inputFile, extractVars, yOffset, pdfK, uniq, rasters,
                   pdfRaised, pdfSaved, docxVars, response>>

\* output_doc.save(output_pdf_path), outside the try block: PyMuPDF refuses to
\* save a document without pages (ValueError), and the write itself may fail
PdfSave ==
    /\ pc = "pdf_save"
    /\ \E written \in BOOLEAN :
         IF outDoc # <<>> /\ written
         THEN /\ pdfSaved' = TRUE
              /\ pc' = AfterPdf
              /\ UNCHANGED <<pdfRaised, response, inputFile>>
         ELSE /\ pdfRaised' = IF outDoc = <<>> THEN "ValueError" ELSE "OSError"
              /\ RaiseToCaller
              /\ UNCHANGED pdfSaved
    /\ UNCHANGED <<inputVars, extractVars, outDoc, yOffset, pdfK, uniq, rasters,
                   pdfCaught, docxVars>>

NextPdf == PdfStart \/ PdfBranch \/ PdfFullPage \/ PdfCropItem \/ PdfLoopDone
           \/ PdfExcept \/ PdfSave

(***************************************************************************)
(* create_highlight_image and generate_docx_from_highlights.               *)
(***************************************************************************)
Run(what, bold, page, text) ==
    [what |-> what, bold |-> bold, page |-> page, text |-> text]

Block(kind, runs) == [kind |-> kind, runs |-> runs]

TitleHeading == Block("heading", <<Run("title", FALSE, 0, <<>>)>>)
NoHighlightsParagraph == Block("para", <<Run("no_highlights", FALSE, 0, <<>>)>>)
PageParagraph(n) == Block("para", <<Run("page_label", TRUE, n, <<>>)>>)
EmptyParagraph == Block("para", <<>>)
TextRun(text) == Run("text", FALSE, 0, text)
PlaceholderRun(n) == Run("placeholder", FALSE, n, <<>>)
Picture(n) == Block("picture", <<Run("image", FALSE, n, <<>>)>>)

\* text_paragraph.add_run(...): text_paragraph is the last block at that point
AddRunToLast(blocks, run) ==
    [blocks EXCEPT ![Len(blocks)] = Block("para", blocks[Len(blocks)].runs \o <<run>>)]

\* how a call of create_highlight_image can end: the file is written and its
\* path returned; a call raises before pixmap.save creates the file; a call
\* raises once the file exists (pixmap.save part-way, or doc.close()).  In the
\* last two the except clause returns None.
RasterOutcomes == {"made", "failed_no_file", "failed_file_left"}

Outcome(raster, embed) == [raster |-> raster, embed |-> embed]

\* a plausible slip: the test of is_complex_text inverted
ComplexInverted(text) == ~is_complex_text(sanitize_text(text))

\* is_complex_text(sanitized_text)
TreatedAsComplex(text) == is_complex_text(sanitize_text(text))

\* os.remove(image_path) of the finally clause
RemoveTempFile(files, path) == files \ {path}

\* document = Document(), the heading, and the branch on `not highlights`
DocxStart ==
    /\ pc = "docx_start"
    /\ docxJ' = 1
    /\ IF highlights = <<>>
       THEN /\ body' = <<TitleHeading, NoHighlightsParagraph>>
            /\ pc' = "docx_save"
       ELSE /\ body' = <<TitleHeading>>
            /\ pc' = "docx_item"
    /\ UNCHANGED <<inputVars, inputFile, extractVars, pdfVars, imagePath, tmpFiles,
                   tmpMade, outcomes, docxRaised, docxSaved, response>>

\* one pass of the loop for a highlight whose sanitized text is not complex
DocxPlainItem ==
    /\ pc = "docx_item"
    /\ docxJ <= Len(highlights)
    /\ ~TreatedAsComplex(highlights[docxJ].text)
    /\ body' = AddRunToLast(
                   body \o <<PageParagraph(highlights[docxJ].page), EmptyParagraph>>,
                   TextRun(sanitize_text(highlights[docxJ].text)))
    /\ outcomes' = Append(outcomes, Outcome("skipped", "skipped"))
    /\ docxJ' = docxJ + 1
    /\ UNCHANGED <<pc, inputVars, inputFile, extractVars, pdfVars, imagePath, tmpFiles,
                   tmpMade, docxRaised, docxSaved, response>>

\* one pass of the loop for a complex highlight, up to the return of
\* create_highlight_image: with a path the pass goes on to embed the image,
\* with None it writes the sanitized text and ends
DocxComplexItem ==
    /\ pc = "docx_item"
    /\ docxJ <= Len(highlights)
    /\ TreatedAsComplex(highlights[docxJ].text)
    /\ \E how \in RasterOutcomes :
         LET opened == body \o <<PageParagraph(highlights[docxJ].page), EmptyParagraph>>
             file == tmpMade + 1
         IN  /\ tmpMade' = IF how = "failed_no_file" THEN tmpMade ELSE file
             /\ tmpFiles' = IF how = "failed_no_file" THEN tmpFiles
                            ELSE tmpFiles \cup {file}
             /\ IF how = "made"
                THEN /\ imagePath' = file
                     /\ body' = opened
                     /\ pc' = "docx_embed"
                     /\ UNCHANGED <<docxJ, outcomes>>
                ELSE /\ imagePath' = 0
                     /\ body' = AddRunToLast(opened,
                                    TextRun(sanitize_text(highlights[docxJ].text)))
                     /\ outcomes' = Append(outcomes, Outcome("failed", "skipped"))
                     /\ docxJ' = docxJ + 1
                     /\ pc' = pc
    /\ UNCHANGED <<inputVars, inputFile, extractVars, pdfVars, docxRaised, docxSaved,
                   response>>

\* document.add_picture inside try/except/finally: the picture, or on an
\* exception the placeholder run; the finally clause removes the file
DocxEmbed ==
    /\ pc = "docx_embed"
    /\ \E embedded \in BOOLEAN :
         /\ body' = IF embedded
                    THEN Append(body, Picture(highlights[docxJ].page))
                    ELSE AddRunToLast(body, PlaceholderRun(highlights[docxJ].page))
         /\ outcomes' = Append(outcomes,
                               Outcome("ok", IF embedded THEN "ok" ELSE "failed"))
    /\ tmpFiles' = RemoveTempFile(tmpFiles, imagePath)
    /\ imagePath' = 0
    /\ docxJ' = docxJ + 1
    /\ pc' = "docx_item"
    /\ UNCHANGED <<inputVars, inputFile, extractVars, pdfVars, tmpMade, docxRaised,
                   docxSaved, response>>

DocxLoopDone ==
    /\ pc = "docx_item"
    /\ docxJ > Len(highlights)
    /\ pc' = "docx_save"
    /\ UNCHANGED <<inputVars, inputFile, extractVars, pdfVars, docxVars, response>>

\* document.save(output_docx_path), outside any try block: the write may fail
DocxSave ==
    /\ pc = "docx_save"
    /\ \E written \in BOOLEAN :
         IF written
         THEN /\ docxSaved' = TRUE
              /\ pc' = AfterDocx
              /\ UNCHANGED <<docxRaised, response, inputFile>>
         ELSE /\ docxRaised' = "OSError"
              /\ RaiseToCaller
              /\ UNCHANGED docxSaved
    /\ UNCHANGED <<inputVars, extractVars, pdfVars, body, docxJ, imagePath, tmpFiles,
                   tmpMade, outcomes>>

NextDocx == DocxStart \/ DocxPlainItem \/ DocxComplexItem \/ DocxEmbed
            \/ DocxLoopDone \/ DocxSave

(***************************************************************************)
(* upload_pdf: the success response and the finally clause.                *)
(***************************************************************************)
UploadRespond ==
    /\ pc = "respond"
    /\ response' = Response(200, TRUE)
    /\ inputFile' = FALSE
    /\ pc' = "done"
    /\ UNCHANGED <<inputVars, extractVars, pdfVars, docxVars>>

Next == UploadReject \/ UploadAccept \/ NextExtract \/ NextPdf \/ NextDocx
        \/ UploadRespond

Spec == Init /\ [][Next]_vars

(***************************************************************************)
(* The two renderers called on their own, on any highlight sequence.       *)
(***************************************************************************)
DirectCall ==
    /\ caller = "direct"
    /\ req = "pdf"
    /\ srcOpens = TRUE
    /\ doc = <<>>
    /\ InitLocals

PdfHighlightSamples ==
    {Highlight(TextPlain, p, r) :
        p \in PageNums, r \in {RectMid, RectWide, RectTall, RectPage}}

InitPdf ==
    /\ pc = "pdf_start"
    /\ mode \in Modes
    /\ highlights \in SeqsUpTo(PdfHighlightSamples, MaxHighlights)
    /\ DirectCall

SpecPdf == InitPdf /\ [][NextPdf]_vars

DocxHighlightSamples ==
    {Highlight(t, p, RectMid) :
        t \in {TextControl, TextGreek, TextMathNul, TextEmpty}, p \in {1, 2}}

InitDocx ==
    /\ pc = "docx_start"
    /\ mode = "full_page"
    /\ highlights \in SeqsUpTo(DocxHighlightSamples, MaxHighlights)
    /\ DirectCall

SpecDocx == InitDocx /\ [][NextDocx]_vars

(***************************************************************************)
(* Properties.                                                             *)
(***************************************************************************)
UploadOfPdf == caller = "upload_pdf" /\ req = "pdf"

\* extract_highlights_from_pdf has returned
Extracted == pc \notin {"upload", "ext_open", "ext_loop"}

\* generate_pdf has built the document it is about to save, or has ended
PdfComposed == Extracted /\ pc \notin {"pdf_start", "pdf_try", "pdf_full", "pdf_crop"}

\* generate_docx has built the document it is about to save, or has ended
DocxEnded == docxSaved \/ docxRaised # "none"
DocxComposed == pc = "docx_save" \/ DocxEnded

\* C1: when the uploaded file cannot be opened or parsed as a PDF, upload_pdf
\* produces no output PDF and no output DOCX, returns no success response and
\* no download URLs, and ends with a failure result.
C1_UnreadableSourceAborts ==
    (UploadOfPdf /\ ~srcOpens) =>
        /\ ~pdfSaved
        /\ ~docxSaved
        /\ response.status # 200
        /\ ~response.urls
        /\ (pc = "done" => response.status = 500)

\* C2: in upload_pdf a failure of generate_pdf does not keep generate_docx from
\* running to its end, and a failure of generate_docx does not keep the PDF that
\* was already generated from being delivered to the caller.
C2_PipelinesIsolated ==
    (UploadOfPdf /\ pc = "done") =>
        /\ (pdfRaised # "none" => DocxEnded)
        /\ ((docxRaised # "none" /\ pdfSaved) => response.urls)

\* C3: generate_pdf never fails outright: whatever the highlights, the mode and
\* the failures inside its try block, it raises nothing of its own (only a failed
\* write of the output file can reach the caller) and the document it saves has
\* at least one page.
C3_PdfNeverFailsOutright ==
    /\ pdfRaised \in {"none", "OSError"}
    /\ (pc = "pdf_save" \/ pdfSaved) => Len(outDoc) >= 1

HighlightAnnots(d) == {n \in 1..Len(d) : d[n].annot.kind = "highlight"}

IsNoHighlightsPdf(pages) ==
    /\ Len(pages) = 1
    /\ Len(pages[1]) = 1
    /\ pages[1][1].kind = "text"
    /\ pages[1][1].what = "no_highlights"

IsNoHighlightsDocx(blocks) ==
    /\ Len(blocks) = 2
    /\ blocks[1].kind = "heading"
    /\ blocks[2].kind = "para"
    /\ Len(blocks[2].runs) = 1
    /\ blocks[2].runs[1].what = "no_highlights"

\* C4: for a source PDF without highlight annotations, in every mode, the
\* extracted sequence is empty, the output PDF is one page holding only the
\* "No highlights found" message with no pixmap made and no except clause run,
\* the DOCX is the title heading followed by exactly one "No highlights found"
\* paragraph, and the request succeeds with both files unless a write fails.
C4_NoHighlightAnnotations ==
    (UploadOfPdf /\ srcOpens /\ HighlightAnnots(doc) = {}) =>
        /\ Extracted => highlights = <<>>
        /\ PdfComposed =>
             /\ IsNoHighlightsPdf(outDoc)
             /\ rasters = 0
             /\ ~pdfCaught
             /\ pdfRaised # "ValueError"
        /\ DocxComposed => IsNoHighlightsDocx(body)
        /\ pc = "done" =>
             \/ response = Response(200, TRUE) /\ pdfSaved /\ docxSaved
             \/ pdfRaised = "OSError"
             \/ docxRaised = "OSError"

\* a document of two annotations, none of them a highlight, went through the
\* whole request in cropped_highlight mode
C4_Witness ==
    /\ UploadOfPdf /\ srcOpens /\ HighlightAnnots(doc) = {}
    /\ Len(doc) = 2
    /\ mode = "cropped_highlight"
    /\ pc = "done"
    /\ response.status = 200

RECURSIVE Flatten(_)
Flatten(ss) == IF ss = <<>> THEN <<>> ELSE Head(ss) \o Flatten(Tail(ss))

\* the runs and pictures of a DOCX body, in document order
BodyRuns(blocks) == Flatten([n \in 1..Len(blocks) |-> blocks[n].runs])

\* what C5 says is written for highlight h when its image ended as outcome o
ClaimedRuns(h, o) ==
    LET clean == sanitize_text(h.text)
        content ==
            IF ~is_complex_text(clean) THEN Run("text", FALSE, 0, clean)
            ELSE IF o.raster = "ok" /\ o.embed = "ok" THEN Run("image", FALSE, h.page, <<>>)
            ELSE IF o.raster = "ok" THEN Run("placeholder", FALSE, h.page, <<>>)
            ELSE Run("text", FALSE, 0, clean)
    IN  <<Run("page_label", TRUE, h.page, <<>>), content>>

\* C5: in generate_docx, every highlight written so far contributes, in order,
\* its bold "Page N:" label followed by exactly one content: the sanitized text
\* when that text is not complex (no image is attempted), the image when it is
\* complex and rasterization and embedding succeed, the placeholder naming the
\* page when only the embedding fails, the sanitized text when rasterization
\* fails.
C5_DocxContentPerHighlight ==
    (pc \in {"docx_item", "docx_save", "done"} /\ highlights # <<>>) =>
        /\ Len(outcomes) = docxJ - 1
        /\ body[1].kind = "heading"
        /\ BodyRuns(Tail(body)) =
             Flatten([n \in 1..Len(outcomes) |-> ClaimedRuns(highlights[n], outcomes[n])])
        /\ \A n \in 1..Len(outcomes) :
             is_complex_text(sanitize_text(highlights[n].text))
                 <=> outcomes[n].raster # "skipped"

\* three highlights were written: one as text, one whose embedding failed, one
\* whose rasterization failed
C5_Witness ==
    /\ pc = "done"
    /\ docxSaved
    /\ Len(outcomes) = 3
    /\ {outcomes[n] : n \in 1..3} =
         {Outcome("skipped", "skipped"), Outcome("ok", "failed"),
          Outcome("failed", "skipped")}

\* C6: every temporary image file create_highlight_image creates during a call
\* of generate_docx is gone when the loop of that call is over, on every path.
C6_TempImagesRemoved ==
    pc \in {"docx_save", "respond", "done"} => tmpFiles = {}

RECURSIVE ReadableHighlights(_)
\* the highlights of the annotations that can be read, in document order
ReadableHighlights(d) ==
    IF d = <<>> THEN <<>>
    ELSE (IF Head(d).annot.bad THEN <<>>
          ELSE KeptHighlights(Head(d).page, Head(d).annot))
         \o ReadableHighlights(Tail(d))

\* C7: an annotation that cannot be read is the only one left out: of a document
\* that opened, extract_highlights_from_pdf returns every other non-empty
\* highlight annotation in page then annotation order, and it returns from an
\* except clause only when the document itself does not open.
C7_MalformedAnnotationSkipped ==
    (UploadOfPdf /\ Extracted) =>
        /\ srcOpens => highlights = ReadableHighlights(doc)
        /\ extractErr => ~srcOpens

\* the image items of an output PDF, in page order
Images(pages) ==
    LET items == Flatten(pages)
    IN  Filter(items, {items[n] : n \in {m \in 1..Len(items) : items[m].kind # "image"}})

\* the original page numbers of the "Original Page N" captions, in page order
OriginalCaptions(pages) ==
    LET items == Flatten(pages)
        kept == Filter(items,
                    {items[n] : n \in {m \in 1..Len(items) : items[m].what # "original"}})
    IN  [n \in 1..Len(kept) |-> kept[n].n]

\* generate_pdf went through a whole non-empty layout pass with no exception
LaidOut(m) ==
    /\ mode = m
    /\ pc \in {"pdf_save", "docx_start", "done"}
    /\ highlights # <<>>
    /\ ~pdfCaught

TallForCount ==
    \A n \in 1..Len(Images(outDoc)) :
        Len(highlights) * Images(outDoc)[n].h > PageHeight - 2 * Margin

\* C8: in cropped_highlight mode, N >= 1 highlights whose scaled image heights
\* each exceed (842 - 2 * 50) / N are laid out on more than one page.
C8_CroppedPaginates ==
    (LaidOut("cropped_highlight") /\ TallForCount) =>
        /\ Len(Images(outDoc)) = Len(highlights)
        /\ Len(outDoc) > 1

\* three highlights, each higher than 742 / 3 and none higher than a page
C8_Witness ==
    /\ LaidOut("cropped_highlight") /\ TallForCount
    /\ Len(highlights) = 3
    /\ \A n \in 1..Len(Images(outDoc)) : Images(outDoc)[n].h < PageHeight - 2 * Margin
    /\ Len(outDoc) > 1

\* C9: in full_page mode the output carries the caption "Original Page N" once
\* for each page number a highlight refers to and for no other, in strictly
\* ascending order of N, whatever the order and number of the highlights.
C9_FullPageCaptions ==
    LaidOut("full_page") =>
        LET caps == OriginalCaptions(outDoc)
        IN  /\ \A n \in 1..(Len(caps) - 1) : caps[n] < caps[n + 1]
            /\ {caps[n] : n \in 1..Len(caps)} =
                 {highlights[n].page : n \in 1..Len(highlights)}

\* highlights on pages 3, 1, 3 in that order
C9_Witness ==
    /\ LaidOut("full_page")
    /\ Len(highlights) = 3
    /\ highlights[1].page = 3 /\ highlights[2].page = 1 /\ highlights[3].page = 3
    /\ OriginalCaptions(outDoc) = <<1, 3>>

\* the page image at the maximum horizontal scale is higher than the space
\* left below the "Original Page N" caption
TooTallBelowCaption(item) ==
    item.ph * MaxImgWidth > (PageHeight - (Margin + FullTitleAdvance) - Margin) * item.pw

\* C10: in full_page mode, a page image that at the maximum horizontal scale is
\* higher than the space left below the caption is placed on a fresh page
\* captioned "(Continued from Original Page N)", scaled to that page's height.
C10_ContinuationWhenTooTall ==
    LaidOut("full_page") =>
        \A p \in 1..Len(outDoc) : \A n \in 1..Len(outDoc[p]) :
            (outDoc[p][n].kind = "image" /\ TooTallBelowCaption(outDoc[p][n])) =>
                /\ outDoc[p][1].what = "continued"
                /\ outDoc[p][n].y = Margin + ContinuedAdvance
                /\ outDoc[p][n].h <= PageHeight - (Margin + ContinuedAdvance) - Margin

\* C11: in cropped_highlight mode, when every scaled image height is at most
\* the printable height 842 - 2 * 50, every image is placed with its bottom
\* edge on or above the bottom margin line: y + height <= 842 - 50, the caption
\* emitted between the fit check and the image included.
C11_CroppedImageAboveBottomMargin ==
    (LaidOut("cropped_highlight")
     /\ \A n \in 1..Len(Images(outDoc)) :
            Images(outDoc)[n].h <= PageHeight - 2 * Margin) =>
        \A n \in 1..Len(Images(outDoc)) :
            Images(outDoc)[n].y + Images(outDoc)[n].h <= PageHeight - Margin

====
